---- MODULE Spec2Model ----
(***************************************************************************)
(* Chokwadi AI: the provider registry (config.py), the content analyzer    *)
(* with its one-level fallback (core/analyzer.py), the admin commands and  *)
(* the runtime override cell (app.py), and the URL risk scanner            *)
(* (core/link_scanner.py).                                                 *)
(*                                                                         *)
(* Python values are modelled as TLA+ strings: None, a propagating         *)
(* exception and the texts an oracle returns are distinct strings, so that *)
(* every comparison the code makes is a comparison of strings here.        *)
(***************************************************************************)
EXTENDS Integers, Sequences, FiniteSets, TLC

VARIABLES
    ANTHROPIC_API_KEY,          \* config.py:9, "" when the variable is unset
    OPENAI_API_KEY,             \* config.py:10
    AI_PROVIDER,                \* config.py:18
    runtime_provider_override,  \* app.py:25, _runtime_provider_override
    admin_resp,                 \* what the last _handle_admin_command returned
    pc,                         \* position of the request inside analyze_*
    call,                       \* "text" (analyze_text) or "vision"
    content_type,               \* analyze_text's content_type argument
    user_message,               \* analyzer.py:28-35
    system,                     \* analyzer.py:37-39
    primary,                    \* analyzer.py:41 / 102
    fallback,                   \* analyzer.py:42 / 103
    result,                     \* analyzer.py:44, 50 / 105, 111
    ret,                        \* the value analyze_* returned
    invocations,                \* the oracle calls made by the running analyze_*
    override_at_entry,          \* the override cell when the running call began
    scan_pc,                    \* position of the scan inside scan_url
    url,                        \* scan_url's argument
    findings,                   \* link_scanner.py:53-58
    parsed,                     \* link_scanner.py:61
    domain,                     \* link_scanner.py:62
    path,                       \* link_scanner.py:63
    full_url_lower,             \* link_scanner.py:64
    proposed,                   \* the levels the running scan passed to
                                \* _escalate_risk, in call order
    report,                     \* app.py:352, scan_report
    lev_pc,                     \* position of a call of _levenshtein_distance
    lev_s1,                     \* link_scanner.py:175, argument s1
    lev_s2,                     \* link_scanner.py:175, argument s2
    lev_ret,                    \* link_scanner.py:192, the value returned
    health_pc,                  \* position of a GET /health request inside
                                \* _current_provider
    health_seen,                \* app.py:29, the value the test read
    health_ret,                 \* app.py:30-31, the value returned
    issued                      \* the admin commands handled so far, in order

vars == <<ANTHROPIC_API_KEY, OPENAI_API_KEY, AI_PROVIDER,
          runtime_provider_override, admin_resp, pc, call, content_type,
          user_message, system, primary, fallback, result, ret, invocations,
          override_at_entry, scan_pc, url, findings, parsed, domain, path,
          full_url_lower, proposed, report, lev_pc, lev_s1, lev_s2, lev_ret,
          health_pc, health_seen, health_ret, issued>>

scanVars == <<scan_pc, url, findings, parsed, domain, path, full_url_lower,
              proposed, report>>

levVars == <<lev_pc, lev_s1, lev_s2, lev_ret>>

healthVars == <<health_pc, health_seen, health_ret>>

configVars == <<ANTHROPIC_API_KEY, OPENAI_API_KEY, AI_PROVIDER>>

callVars == <<pc, call, content_type, user_message, system, primary, fallback,
              result, ret, invocations, override_at_entry>>

----------------------------------------------------------------------------
(* Python values *)

\* Python's None
None == "<None>"

\* the RuntimeError get_active_provider raises, as a propagating exception
RuntimeError == "<RuntimeError>"

\* any exception an SDK call or the image download raises
Raise == "<Exception>"

\* the texts an oracle may answer with: the empty text and a verdict
Texts == {"", "verdict"}

\* the API keys the environment may hold: unset (the default "") or set
Keys == {"", "sk-key"}

\* AI_PROVIDER is any string of the environment: the three documented modes
\* and a value that names no provider
Modes == {"auto", "anthropic", "openai", "other"}

Providers == {"anthropic", "openai"}

ContentTypes == {"text", "voice", "image", "link"}

\* Python truthiness of a str | None value
Truthy(v) == v # None /\ v # ""

----------------------------------------------------------------------------
(* config.py *)

get_available_providers ==
    (IF Truthy(ANTHROPIC_API_KEY) THEN <<"anthropic">> ELSE <<>>)
        \o (IF Truthy(OPENAI_API_KEY) THEN <<"openai">> ELSE <<>>)

InSeq(x, s) == \E i \in 1..Len(s) : s[i] = x

\* a get_active_provider whose explicit branch returns the named provider
\* without looking at the keys
get_active_provider_unchecked ==
    LET available == get_available_providers IN
    IF AI_PROVIDER = "auto"
    THEN IF InSeq("anthropic", available) THEN "anthropic"
         ELSE IF InSeq("openai", available) THEN "openai"
         ELSE RuntimeError
    ELSE IF AI_PROVIDER \in Providers THEN AI_PROVIDER
         ELSE IF Len(available) > 0 THEN available[1]
         ELSE RuntimeError

\* a get_active_provider that returns None instead of raising
get_active_provider_silent ==
    LET available == get_available_providers IN
    IF AI_PROVIDER = "auto"
    THEN IF InSeq("anthropic", available) THEN "anthropic"
         ELSE IF InSeq("openai", available) THEN "openai"
         ELSE None
    ELSE IF InSeq(AI_PROVIDER, available) THEN AI_PROVIDER
         ELSE IF Len(available) > 0 THEN available[1]
         ELSE None

get_active_provider ==
    LET available == get_available_providers IN
    IF AI_PROVIDER = "auto"
    THEN IF InSeq("anthropic", available) THEN "anthropic"
         ELSE IF InSeq("openai", available) THEN "openai"
         ELSE RuntimeError
    ELSE IF InSeq(AI_PROVIDER, available) THEN AI_PROVIDER
         ELSE IF Len(available) > 0 THEN available[1]
         ELSE RuntimeError

\* the first element of s that differs from x, None when there is none
RECURSIVE FirstOther(_, _)
FirstOther(s, x) ==
    IF s = <<>> THEN None
    ELSE IF Head(s) # x THEN Head(s)
    ELSE FirstOther(Tail(s), x)

\* a get_fallback_provider without the mode test of line 75
get_fallback_provider_any_mode ==
    LET available == get_available_providers
        p == get_active_provider
    IN  IF p = RuntimeError THEN RuntimeError ELSE FirstOther(available, p)

\* a get_fallback_provider whose loop does not skip the primary
get_fallback_provider_first ==
    IF AI_PROVIDER # "auto" THEN None
    ELSE LET available == get_available_providers
             p == get_active_provider
         IN  IF p = RuntimeError THEN RuntimeError
             ELSE IF available = <<>> THEN None ELSE Head(available)

get_fallback_provider ==
    IF AI_PROVIDER # "auto" THEN None
    ELSE LET available == get_available_providers
             p == get_active_provider
         IN  IF p = RuntimeError THEN RuntimeError ELSE FirstOther(available, p)

----------------------------------------------------------------------------
(* core/analyzer.py *)

\* what one SDK call can do: raise, or answer with a text; the OpenAI
\* message content is Optional, so that call may also answer None
OracleOutcomes(provider) ==
    IF provider = "anthropic" THEN {Raise} \cup Texts
    ELSE {Raise, None} \cup Texts

_call_claude(outcome) == outcome

_call_openai(outcome) == outcome

\* a _call_provider without its try/except
_call_provider_uncaught(provider, outcome) ==
    IF provider = "anthropic" THEN _call_claude(outcome) ELSE _call_openai(outcome)

_call_provider(provider, outcome) ==
    LET r == IF provider = "anthropic" THEN _call_claude(outcome)
             ELSE _call_openai(outcome)
    IN  IF r = Raise THEN None ELSE r

\* the vision calls download the image first; the download or the SDK call
\* may raise
_vision_claude(outcome) == outcome

_vision_openai(outcome) == outcome

_call_vision_provider(provider, outcome) ==
    LET r == IF provider = "anthropic" THEN _vision_claude(outcome)
             ELSE _vision_openai(outcome)
    IN  IF r = Raise THEN None ELSE r

_error_response == "CHOKWADI AI: Pane dambudziko ... (Please try again shortly.)"

UserMessage(ct) ==
    CASE ct = "voice" -> "VOICE_NOTE_CONTEXT + content"
      [] ct = "image" -> "IMAGE_CONTEXT + content"
      [] ct = "link"  -> "Please analyse this URL/link ... + content"
      [] OTHER        -> "Please analyse the following content ... + content"

SystemPrompt(ct) ==
    IF ct = "link" THEN "CHOKWADI_SYSTEM_PROMPT + LINK_ANALYSIS_PROMPT"
    ELSE "CHOKWADI_SYSTEM_PROMPT"

\* the test `result is not None` read as truthiness
SucceededTruthy(r) == Truthy(r)

\* `result is not None`
Succeeded(r) == r # None

\* lines 41-42 and 102-103
Resolve ==
    /\ primary' = get_active_provider
    /\ IF primary' = RuntimeError
       THEN /\ pc' = "raised"
            /\ fallback' = None
       ELSE /\ fallback' = get_fallback_provider
            /\ pc' = IF fallback' = RuntimeError THEN "raised" ELSE "call_primary"
    /\ override_at_entry' = runtime_provider_override
    /\ result' = None
    /\ ret' = None
    /\ invocations' = <<>>

analyze_text(ct) ==
    /\ pc = "idle"
    /\ call' = "text"
    /\ content_type' = ct
    /\ user_message' = UserMessage(ct)
    /\ system' = SystemPrompt(ct)
    /\ Resolve
    /\ UNCHANGED <<configVars, runtime_provider_override, admin_resp, scanVars,
                   levVars, healthVars, issued>>

analyze_image_with_vision ==
    /\ pc = "idle"
    /\ call' = "vision"
    /\ content_type' = None
    /\ user_message' = None
    /\ system' = "CHOKWADI_SYSTEM_PROMPT"
    /\ Resolve
    /\ UNCHANGED <<configVars, runtime_provider_override, admin_resp, scanVars,
                   levVars, healthVars, issued>>

Invoke(provider, outcome) ==
    IF call = "text" THEN _call_provider(provider, outcome)
    ELSE _call_vision_provider(provider, outcome)

\* lines 44-48 and 105-109: the call to the primary and what follows it
CallPrimary ==
    /\ pc = "call_primary"
    /\ \E outcome \in OracleOutcomes(primary) :
          /\ result' = Invoke(primary, outcome)
          /\ invocations' =
                 Append(invocations, [provider |-> primary, outcome |-> outcome])
    /\ IF result' = Raise
       THEN pc' = "raised" /\ ret' = None
       ELSE IF Succeeded(result')
       THEN pc' = "returned" /\ ret' = result'
       ELSE IF Truthy(fallback)
       THEN pc' = "call_fallback" /\ ret' = None
       ELSE pc' = "returned" /\ ret' = _error_response
    /\ UNCHANGED <<configVars, runtime_provider_override, admin_resp, call,
                   content_type, user_message, system, primary, fallback,
                   override_at_entry, scanVars, levVars, healthVars, issued>>

\* lines 50-54 and 111-115: the call to the fallback and what follows it
CallFallback ==
    /\ pc = "call_fallback"
    /\ \E outcome \in OracleOutcomes(fallback) :
          /\ result' = Invoke(fallback, outcome)
          /\ invocations' =
                 Append(invocations, [provider |-> fallback, outcome |-> outcome])
    /\ IF result' = Raise
       THEN pc' = "raised" /\ ret' = None
       ELSE IF Succeeded(result')
       THEN pc' = "returned" /\ ret' = result'
       ELSE pc' = "returned" /\ ret' = _error_response
    /\ UNCHANGED <<configVars, runtime_provider_override, admin_resp, call,
                   content_type, user_message, system, primary, fallback,
                   override_at_entry, scanVars, levVars, healthVars, issued>>

\* the caller has the value (or the exception); the next request may start
Finish ==
    /\ pc \in {"returned", "raised"}
    /\ pc' = "idle"
    /\ call' = None
    /\ content_type' = None
    /\ user_message' = None
    /\ system' = None
    /\ primary' = None
    /\ fallback' = None
    /\ result' = None
    /\ ret' = None
    /\ invocations' = <<>>
    /\ override_at_entry' = None
    /\ UNCHANGED <<configVars, runtime_provider_override, admin_resp, scanVars,
                   levVars, healthVars, issued>>

----------------------------------------------------------------------------
(* app.py *)

_current_provider ==
    IF Truthy(runtime_provider_override) THEN runtime_provider_override
    ELSE get_active_provider

\* the admin texts tried, and command.strip().lower() of each
Commands == {"!status", "!claude", "!gpt", "!auto", " !GPT ", "!Claude", "!help"}

StripLower(command) ==
    CASE command = " !GPT "  -> "!gpt"
      [] command = "!Claude" -> "!claude"
      [] OTHER               -> command

\* a handler in which a text that is no command clears the override
_handle_admin_command_unknown_clears(command) ==
    LET cmd == StripLower(command) IN
    /\ runtime_provider_override' =
          CASE cmd = "!claude" -> "anthropic"
            [] cmd = "!gpt"    -> "openai"
            [] cmd = "!status" -> runtime_provider_override
            [] OTHER           -> None
    /\ admin_resp' = None
    /\ UNCHANGED <<configVars, callVars, scanVars, levVars, healthVars>>

_handle_admin_command(command) ==
    LET cmd == StripLower(command) IN
    /\ CASE cmd = "!status" ->
              /\ admin_resp' =
                    IF _current_provider = RuntimeError THEN RuntimeError
                    ELSE "Chokwadi AI Status"
              /\ UNCHANGED runtime_provider_override
         [] cmd = "!claude" ->
              /\ runtime_provider_override' = "anthropic"
              /\ admin_resp' = "Switched to Anthropic Claude"
         [] cmd = "!gpt" ->
              /\ runtime_provider_override' = "openai"
              /\ admin_resp' = "Switched to OpenAI GPT"
         [] cmd = "!auto" ->
              /\ runtime_provider_override' = None
              /\ admin_resp' = "Switched to auto mode"
         [] OTHER ->
              /\ admin_resp' = None
              /\ UNCHANGED runtime_provider_override
    /\ UNCHANGED <<configVars, callVars, scanVars, levVars, healthVars>>

\* one step of a GET /health request; the admin commands of other requests
\* run between its steps
HealthStep(seen, returned, next) ==
    /\ health_seen' = seen
    /\ health_ret' = returned
    /\ health_pc' = next
    /\ UNCHANGED <<configVars, runtime_provider_override, admin_resp, callVars,
                   scanVars, levVars, issued>>

\* app.py:376-378: health() calls _current_provider()
health ==
    /\ health_pc = "idle"
    /\ HealthStep(None, None, "line29")

\* app.py:29, 31: `if _runtime_provider_override:` reads the global; when it
\* is falsy the call returns get_active_provider()
CurrentProviderTest ==
    /\ health_pc = "line29"
    /\ IF Truthy(runtime_provider_override)
       THEN HealthStep(runtime_provider_override, None, "line30")
       ELSE HealthStep(runtime_provider_override, get_active_provider,
                       "returned")

\* app.py:30: `return _runtime_provider_override` reads the global again
CurrentProviderReturn ==
    /\ health_pc = "line30"
    /\ HealthStep(health_seen, runtime_provider_override, "returned")

\* app.py:378: the response is sent
HealthReturn ==
    /\ health_pc = "returned"
    /\ HealthStep(None, None, "idle")

----------------------------------------------------------------------------
(* Python str operations; a str is a sequence of one-character strings *)

LowerCase ==
    <<"a", "b", "c", "d", "e", "f", "g", "h", "i", "j", "k", "l", "m",
      "n", "o", "p", "q", "r", "s", "t", "u", "v", "w", "x", "y", "z">>

UpperCase ==
    <<"A", "B", "C", "D", "E", "F", "G", "H", "I", "J", "K", "L", "M",
      "N", "O", "P", "Q", "R", "S", "T", "U", "V", "W", "X", "Y", "Z">>

Digits == {"0", "1", "2", "3", "4", "5", "6", "7", "8", "9"}

Letters == {LowerCase[k] : k \in 1..26} \cup {UpperCase[k] : k \in 1..26}

\* c.lower()
LowerChar(c) ==
    IF \E k \in 1..26 : UpperCase[k] = c
    THEN LowerCase[CHOOSE k \in 1..26 : UpperCase[k] = c]
    ELSE c

\* s.lower()
Lower(s) == [i \in 1..Len(s) |-> LowerChar(s[i])]

\* c * n
Repeat(c, n) == [i \in 1..n |-> c]

\* t occurs in s at position i
OccursAt(s, t, i) ==
    /\ i >= 1
    /\ i + Len(t) - 1 <= Len(s)
    /\ SubSeq(s, i, i + Len(t) - 1) = t

\* `t in s`
Contains(s, t) == \E i \in 1..(Len(s) - Len(t) + 1) : OccursAt(s, t, i)

\* s.endswith(t)
EndsWith(s, t) == Len(t) <= Len(s) /\ OccursAt(s, t, Len(s) - Len(t) + 1)

\* the least position >= from of a character of cs in s, 0 when there is none
FindAny(s, cs, from) ==
    LET hits == {i \in from..Len(s) : s[i] \in cs}
    IN  IF hits = {} THEN 0 ELSE CHOOSE i \in hits : \A j \in hits : i <= j

\* s.find(c) + 1
Find(s, c) == FindAny(s, {c}, 1)

\* s.count(c)
Count(s, c) == Cardinality({i \in 1..Len(s) : s[i] = c})

\* s.split(c)[0]
SplitFirst(s, c) ==
    IF Find(s, c) = 0 THEN s ELSE SubSeq(s, 1, Find(s, c) - 1)

\* s.split(c, 1)[1], "" when c does not occur
SplitRest(s, c) ==
    IF Find(s, c) = 0 THEN <<>> ELSE SubSeq(s, Find(s, c) + 1, Len(s))

\* re.search of literal pieces separated by `.*`, from piece k on and from
\* position from on
RECURSIVE SearchPieces(_, _, _, _)
SearchPieces(pieces, k, s, from) ==
    \/ k > Len(pieces)
    \/ \E alt \in pieces[k] :
          \E i \in from..(Len(s) - Len(alt) + 1) :
              /\ OccursAt(s, alt, i)
              /\ SearchPieces(pieces, k + 1, s, i + Len(alt))

\* re.search(pattern, s)
re_search(pieces, s) == SearchPieces(pieces, 1, s, 1)

\* re.match(r'\d{1,3}\.\d{1,3}\.\d{1,3}\.\d{1,3}', s): a match at the start
\* of s, whatever follows it
re_match_ipv4(s) ==
    \E a \in 1..3 : \E b \in 1..3 : \E c \in 1..3 :
        LET n == a + b + c + 4 IN
        /\ Len(s) >= n
        /\ \A i \in 1..a : s[i] \in Digits
        /\ s[a + 1] = "."
        /\ \A i \in (a + 2)..(a + 1 + b) : s[i] \in Digits
        /\ s[a + b + 2] = "."
        /\ \A i \in (a + b + 3)..(a + b + 2 + c) : s[i] \in Digits
        /\ s[a + b + c + 3] = "."
        /\ s[n] \in Digits

----------------------------------------------------------------------------
(* urllib.parse.urlparse, on URLs without whitespace, control characters   *)
(* and ';' : the scheme up to the first ':', the netloc after '//' up to   *)
(* the next '/', '?' or '#', then the path up to '?' or '#'                *)

scheme_chars == Letters \cup Digits \cup {"+", "-", "."}

HasScheme(u) ==
    LET i == Find(u, ":") IN
    /\ i >= 2
    /\ u[1] \in Letters
    /\ \A k \in 1..(i - 1) : u[k] \in scheme_chars

AfterScheme(u) ==
    IF HasScheme(u) THEN SubSeq(u, Find(u, ":") + 1, Len(u)) ELSE u

HasNetloc(u) ==
    LET r == AfterScheme(u) IN Len(r) >= 2 /\ SubSeq(r, 1, 2) = <<"/", "/">>

\* _splitnetloc(url, 2): where the netloc ends
NetlocEnd(r) ==
    LET d == FindAny(r, {"/", "?", "#"}, 3)
    IN  IF d = 0 THEN Len(r) ELSE d - 1

Netloc(u) ==
    LET r == AfterScheme(u)
    IN  IF HasNetloc(u) THEN SubSeq(r, 3, NetlocEnd(r)) ELSE <<>>

AfterNetloc(u) ==
    LET r == AfterScheme(u)
    IN  IF HasNetloc(u) THEN SubSeq(r, NetlocEnd(r) + 1, Len(r)) ELSE r

\* urlparse raises ValueError("Invalid IPv6 URL") on a netloc with one
\* bracket and not the other
urlparse_raises(u) ==
    LET n == Netloc(u)
    IN  HasNetloc(u) /\ (Contains(n, <<"[">>) # Contains(n, <<"]">>))

urlparse(u) ==
    LET rest == AfterNetloc(u)
        noFragment == SplitFirst(rest, "#")
    IN  [ scheme   |-> IF HasScheme(u)
                       THEN Lower(SubSeq(u, 1, Find(u, ":") - 1)) ELSE <<>>,
          netloc   |-> Netloc(u),
          path     |-> SplitFirst(noFragment, "?"),
          query    |-> SplitRest(noFragment, "?"),
          fragment |-> SplitRest(rest, "#") ]

----------------------------------------------------------------------------
(* core/link_scanner.py *)

\* link_scanner.py:10-18
LEGITIMATE_ZW_DOMAINS ==
    {
      <<"e", "c", "o", "c", "a", "s", "h", ".", "c", "o", ".", "z", "w">>,
      <<"i", "n", "n", "b", "u", "c", "k", "s", ".", "c", "o", ".", "z", "w">>,
      <<"r", "b", "z", ".", "c", "o", ".", "z", "w">>,
      <<"z", "i", "m", "r", "a", ".", "c", "o", ".", "z", "w">>,
      <<"z", "s", "e", ".", "c", "o", ".", "z", "w">>,
      <<"h", "e", "r", "a", "l", "d", ".", "c", "o", ".", "z", "w">>,
      <<"c", "h", "r", "o", "n", "i", "c", "l", "e", ".", "c", "o", ".", "z", "w">>,
      <<"n", "e", "w", "s", "d", "a", "y", ".", "c", "o", ".", "z", "w">>,
      <<"t", "e", "c", "h", "z", "i", "m", ".", "c", "o", ".", "z", "w">>,
      <<"z", "b", "c", ".", "c", "o", ".", "z", "w">>,
      <<"p", "a", "r", "l", "z", "i", "m", ".", "g", "o", "v", ".", "z", "w">>,
      <<"z", "i", "m", "g", "o", "v", ".", "g", "o", "v", ".", "z", "w">>,
      <<"m", "h", "t", "e", ".", "g", "o", "v", ".", "z", "w">>,
      <<"m", "o", "h", "c", "c", ".", "g", "o", "v", ".", "z", "w">>,
      <<"p", "o", "t", "r", "a", "z", ".", "g", "o", "v", ".", "z", "w">>,
      <<"z", "e", "c", ".", "o", "r", "g", ".", "z", "w">>,
      <<"u", "z", ".", "a", "c", ".", "z", "w">>,
      <<"n", "u", "s", "t", ".", "a", "c", ".", "z", "w">>,
      <<"h", "i", "t", ".", "a", "c", ".", "z", "w">>,
      <<"m", "s", "u", ".", "a", "c", ".", "z", "w">>,
      <<"s", "t", "e", "w", "a", "r", "d", ".", "c", "o", ".", "z", "w">>,
      <<"c", "b", "z", ".", "c", "o", ".", "z", "w">>,
      <<"s", "t", "a", "n", "b", "i", "c", "b", "a", "n", "k", ".", "c", "o", ".", "z", "w">>,
      <<"z", "e", "t", "d", "c", ".", "c", "o", ".", "z", "w">>,
      <<"e", "c", "o", "n", "e", "t", ".", "c", "o", ".", "z", "w">>,
      <<"n", "e", "t", "o", "n", "e", ".", "c", "o", ".", "z", "w">>,
      <<"t", "e", "l", "e", "c", "e", "l", ".", "c", "o", ".", "z", "w">>
    }

\* link_scanner.py:21-24
SUSPICIOUS_TLDS ==
    {
      <<".", "x", "y", "z">>,
      <<".", "t", "o", "p">>,
      <<".", "c", "l", "u", "b">>,
      <<".", "w", "o", "r", "k">>,
      <<".", "c", "l", "i", "c", "k">>,
      <<".", "l", "i", "n", "k">>,
      <<".", "b", "u", "z", "z">>,
      <<".", "g", "q">>,
      <<".", "m", "l">>,
      <<".", "c", "f">>,
      <<".", "t", "k">>,
      <<".", "g", "a">>
    }

\* link_scanner.py:27-40: each regex as its literal pieces, in order, with
\* `.*` between two pieces; a piece is the set of texts it matches
\* ([-_]? and s? written out)
SCAM_PATTERNS ==
    <<
      <<{<<"e", "c", "o", "c", "a", "s", "h">>}, {<<"f", "r", "e", "e">>}>>,
      <<{<<"i", "n", "n", "b", "u", "c", "k", "s">>}, {<<"b", "o", "n", "u", "s">>}>>,
      <<{<<"z", "i", "m">>}, {<<"l", "o", "t", "t", "e", "r", "y">>}>>,
      <<{<<"d", "v", "l", "o", "t", "t", "e", "r", "y">>, <<"d", "v", "-", "l", "o", "t", "t", "e", "r", "y">>, <<"d", "v", "_", "l", "o", "t", "t", "e", "r", "y">>}, {<<"a", "p", "p", "l", "y">>}>>,
      <<{<<"r", "b", "z">>}, {<<"z", "i", "g">>}, {<<"e", "x", "c", "h", "a", "n", "g", "e">>}>>,
      <<{<<"f", "r", "e", "e", "a", "i", "r", "t", "i", "m", "e">>, <<"f", "r", "e", "e", "-", "a", "i", "r", "t", "i", "m", "e">>, <<"f", "r", "e", "e", "_", "a", "i", "r", "t", "i", "m", "e">>}>>,
      <<{<<"z", "i", "m", "r", "a">>}, {<<"r", "e", "f", "u", "n", "d">>}>>,
      <<{<<"z", "e", "s", "a">>}, {<<"f", "r", "e", "e">>}, {<<"t", "o", "k", "e", "n">>, <<"t", "o", "k", "e", "n", "s">>}>>,
      <<{<<"d", "i", "a", "s", "p", "o", "r", "a">>}, {<<"s", "e", "n", "d">>}, {<<"m", "o", "n", "e", "y">>}>>,
      <<{<<"f", "o", "r", "e", "x">>}, {<<"g", "u", "a", "r", "a", "n", "t", "e", "e", "d">>}, {<<"p", "r", "o", "f", "i", "t">>}>>,
      <<{<<"c", "r", "y", "p", "t", "o">>}, {<<"i", "n", "v", "e", "s", "t">>}, {<<"z", "i", "m">>}>>,
      <<{<<"w", "h", "a", "t", "s", "a", "p", "p">>}, {<<"g", "o", "l", "d">>}>>
    >>

\* link_scanner.py:153-161, in the dict's insertion order
typosquat_targets ==
    <<
      <<<<"e", "c", "o", "c", "a", "s", "h">>, <<"e", "c", "o", "c", "a", "s", "h", ".", "c", "o", ".", "z", "w">>>>,
      <<<<"i", "n", "n", "b", "u", "c", "k", "s">>, <<"i", "n", "n", "b", "u", "c", "k", "s", ".", "c", "o", ".", "z", "w">>>>,
      <<<<"e", "c", "o", "n", "e", "t">>, <<"e", "c", "o", "n", "e", "t", ".", "c", "o", ".", "z", "w">>>>,
      <<<<"c", "b", "z">>, <<"c", "b", "z", ".", "c", "o", ".", "z", "w">>>>,
      <<<<"s", "t", "e", "w", "a", "r", "d">>, <<"s", "t", "e", "w", "a", "r", "d", ".", "c", "o", ".", "z", "w">>>>,
      <<<<"z", "i", "m", "r", "a">>, <<"z", "i", "m", "r", "a", ".", "c", "o", ".", "z", "w">>>>,
      <<<<"r", "b", "z">>, <<"r", "b", "z", ".", "c", "o", ".", "z", "w">>>>
    >>

\* link_scanner.py:101
sus_paths ==
    <<
      <<"l", "o", "g", "i", "n">>,
      <<"s", "i", "g", "n", "i", "n">>,
      <<"v", "e", "r", "i", "f", "y">>,
      <<"u", "p", "d", "a", "t", "e">>,
      <<"s", "e", "c", "u", "r", "e">>,
      <<"a", "c", "c", "o", "u", "n", "t">>,
      <<"c", "o", "n", "f", "i", "r", "m">>
    >>

\* link_scanner.py:121
shorteners ==
    <<
      <<"b", "i", "t", ".", "l", "y">>,
      <<"t", "i", "n", "y", "u", "r", "l", ".", "c", "o", "m">>,
      <<"t", ".", "c", "o">>,
      <<"g", "o", "o", ".", "g", "l">>,
      <<"i", "s", ".", "g", "d">>,
      <<"r", "b", ".", "g", "y">>,
      <<"s", "h", "o", "r", "t", "u", "r", "l", ".", "a", "t">>
    >>

Min3(a, b, c) ==
    IF a <= b /\ a <= c THEN a ELSE IF b <= c THEN b ELSE c

\* range(n + 1)
RECURSIVE Range(_)
Range(n) == IF n = 0 THEN <<0>> ELSE Append(Range(n - 1), n)

\* lines 184-189: the row of c1, from the entries built so far
RECURSIVE CurrRow(_, _, _, _)
CurrRow(curr_row, prev_row, c1, s2) ==
    LET j == Len(curr_row) IN
    IF j > Len(s2) THEN curr_row
    ELSE LET insertions == prev_row[j + 1] + 1
             deletions == curr_row[j] + 1
             substitutions == prev_row[j] + (IF c1 # s2[j] THEN 1 ELSE 0)
         IN  CurrRow(Append(curr_row, Min3(insertions, deletions, substitutions)),
                     prev_row, c1, s2)

\* lines 183-190: the rows of s1[i..], i counted from 1
RECURSIVE Rows(_, _, _, _)
Rows(prev_row, s1, s2, i) ==
    IF i > Len(s1) THEN prev_row
    ELSE Rows(CurrRow(<<i>>, prev_row, s1[i], s2), s1, s2, i + 1)

\* a _levenshtein_distance whose swapping call passes s2 twice
_levenshtein_distance_swap_typo(s1, s2) ==
    IF Len(s1) < Len(s2)
    THEN LET last == Rows(Range(Len(s2)), s2, s2, 1) IN last[Len(last)]
    ELSE IF Len(s2) = 0 THEN Len(s1)
    ELSE LET last == Rows(Range(Len(s2)), s1, s2, 1) IN last[Len(last)]

RECURSIVE _levenshtein_distance(_, _)
_levenshtein_distance(s1, s2) ==
    IF Len(s1) < Len(s2) THEN _levenshtein_distance(s2, s1)
    ELSE IF Len(s2) = 0 THEN Len(s1)
    ELSE LET last == Rows(Range(Len(s2)), s1, s2, 1) IN last[Len(last)]

\* a rule that accepts one edit only
Typosquats_one_edit(dom, dom_base, target_base) ==
    /\ dom \notin LEGITIMATE_ZW_DOMAINS
    /\ \/ Contains(dom_base, target_base) /\ dom_base # target_base
       \/ /\ _levenshtein_distance(dom_base, target_base) < 2
          /\ dom_base # target_base

\* lines 166-169 for one target
Typosquats(dom, dom_base, target_base) ==
    /\ dom \notin LEGITIMATE_ZW_DOMAINS
    /\ \/ Contains(dom_base, target_base) /\ dom_base # target_base
       \/ /\ _levenshtein_distance(dom_base, target_base) <= 2
          /\ dom_base # target_base

\* the targets from position k on, in order; <<>> stands for None
RECURSIVE CheckTargets(_, _, _)
CheckTargets(dom, dom_base, k) ==
    IF k > Len(typosquat_targets) THEN <<>>
    ELSE IF Typosquats(dom, dom_base, typosquat_targets[k][1])
    THEN typosquat_targets[k][2]
    ELSE CheckTargets(dom, dom_base, k + 1)

_check_typosquatting(dom) ==
    CheckTargets(dom, Lower(SplitFirst(dom, ".")), 1)

levels(level) ==
    CASE level = "low"      -> 0
      [] level = "medium"   -> 1
      [] level = "high"     -> 2
      [] level = "critical" -> 3
      [] OTHER              -> 0

\* an _escalate_risk that assigns the new level whenever it differs
_escalate_risk_assign(f, new_level) ==
    IF levels(new_level) # levels(f.risk_level)
    THEN [f EXCEPT !.risk_level = new_level]
    ELSE f

\* an _escalate_risk whose comparison is turned around
_escalate_risk_flipped(f, new_level) ==
    IF levels(new_level) < levels(f.risk_level)
    THEN [f EXCEPT !.risk_level = new_level]
    ELSE f

_escalate_risk(f, new_level) ==
    IF levels(new_level) > levels(f.risk_level)
    THEN [f EXCEPT !.risk_level = new_level]
    ELSE f

\* findings["issues"].insert(0, issue)
AppendIssue_front(f, issue) == [f EXCEPT !.issues = <<issue>> \o @]

\* findings["issues"].append(issue); an issue is the pieces of its text
AppendIssue(f, issue) == [f EXCEPT !.issues = Append(@, issue)]

\* an empty dict
EmptyDict == <<>>

\* the values the locals of scan_url hold while no scan runs
NoFindings ==
    [url |-> <<>>, risk_level |-> "low", issues |-> <<>>, details |-> EmptyDict]

NoParse ==
    [scheme |-> <<>>, netloc |-> <<>>, path |-> <<>>, query |-> <<>>,
     fragment |-> <<>>]

h_t_t_p == <<"h", "t", "t", "p">>

\* https://ecocash.co.zw/
URL_legit ==
    <<"h", "t", "t", "p", "s", ":", "/", "/", "e", "c", "o", "c", "a", "s",
    "h", ".", "c", "o", ".", "z", "w", "/">>

\* http://ec0cash.co.zw/login
URL_typosquat_login ==
    <<"h", "t", "t", "p", ":", "/", "/", "e", "c", "0", "c", "a", "s", "h",
    ".", "c", "o", ".", "z", "w", "/", "l", "o", "g", "i", "n">>

\* http://192.168.0.1/verify
URL_ip_verify ==
    <<"h", "t", "t", "p", ":", "/", "/", "1", "9", "2", ".", "1", "6", "8",
    ".", "0", ".", "1", "/", "v", "e", "r", "i", "f", "y">>

\* https://bit.ly/abc
URL_shortener ==
    <<"h", "t", "t", "p", "s", ":", "/", "/", "b", "i", "t", ".", "l", "y",
    "/", "a", "b", "c">>

\* https://econet.co.zw/
URL_econet ==
    <<"h", "t", "t", "p", "s", ":", "/", "/", "e", "c", "o", "n", "e", "t",
    ".", "c", "o", ".", "z", "w", "/">>

\* https://a.b.example.com/
URL_four_labels ==
    <<"h", "t", "t", "p", "s", ":", "/", "/", "a", ".", "b", ".", "e", "x",
    "a", "m", "p", "l", "e", ".", "c", "o", "m", "/">>

\* https://a.b.c.example.com/
URL_five_labels ==
    <<"h", "t", "t", "p", "s", ":", "/", "/", "a", ".", "b", ".", "c", ".",
    "e", "x", "a", "m", "p", "l", "e", ".", "c", "o", "m", "/">>

\* https://free-airtime.xyz/win
URL_scam_tld ==
    <<"h", "t", "t", "p", "s", ":", "/", "/", "f", "r", "e", "e", "-", "a",
    "i", "r", "t", "i", "m", "e", ".", "x", "y", "z", "/", "w", "i", "n">>

\* http://[evil.com/
URL_bad_bracket ==
    <<"h", "t", "t", "p", ":", "/", "/", "[", "e", "v", "i", "l", ".", "c",
    "o", "m", "/">>

\* ftp://example.com/file
URL_ftp ==
    <<"f", "t", "p", ":", "/", "/", "e", "x", "a", "m", "p", "l", "e", ".",
    "c", "o", "m", "/", "f", "i", "l", "e">>

\* HTTPS://ECOCASH.CO.ZW/Login
URL_upper ==
    <<"H", "T", "T", "P", "S", ":", "/", "/", "E", "C", "O", "C", "A", "S",
    "H", ".", "C", "O", ".", "Z", "W", "/", "L", "o", "g", "i", "n">>

\* example.com/login
URL_no_scheme ==
    <<"e", "x", "a", "m", "p", "l", "e", ".", "c", "o", "m", "/", "l", "o",
    "g", "i", "n">>

\* https://secure-ecocash.com/
URL_substring_squat ==
    <<"h", "t", "t", "p", "s", ":", "/", "/", "s", "e", "c", "u", "r", "e",
    "-", "e", "c", "o", "c", "a", "s", "h", ".", "c", "o", "m", "/">>

\* https://example.com/
URL_plain ==
    <<"h", "t", "t", "p", "s", ":", "/", "/", "e", "x", "a", "m", "p", "l",
    "e", ".", "c", "o", "m", "/">>

\* https://ecocash.co.zw/aaa...a, 200 characters
URL_200_chars == URL_legit \o Repeat("a", 178)

\* https://ecocash.co.zw/aaa...a, 201 characters
URL_201_chars == URL_legit \o Repeat("a", 179)

\* http://1.2.3.4.example.com/
URL_ip_name ==
    <<"h", "t", "t", "p", ":", "/", "/", "1", ".", "2", ".", "3", ".", "4",
    ".", "e", "x", "a", "m", "p", "l", "e", ".", "c", "o", "m", "/">>

\* https://ec0ca5h.co.zw/
URL_distance_two ==
    <<"h", "t", "t", "p", "s", ":", "/", "/", "e", "c", "0", "c", "a", "5",
    "h", ".", "c", "o", ".", "z", "w", "/">>

\* https://ec0ka5h.co.zw/
URL_distance_three ==
    <<"h", "t", "t", "p", "s", ":", "/", "/", "e", "c", "0", "k", "a", "5",
    "h", ".", "c", "o", ".", "z", "w", "/">>

\* http://ec0cash.co.zw.win.xyz/login
URL_many_flags ==
    <<"h", "t", "t", "p", ":", "/", "/", "e", "c", "0", "c", "a", "s", "h",
    ".", "c", "o", ".", "z", "w", ".", "w", "i", "n", ".", "x", "y", "z",
    "/", "l", "o", "g", "i", "n">>

\* https://example.com/verify/login
URL_two_keywords ==
    <<"h", "t", "t", "p", "s", ":", "/", "/", "e", "x", "a", "m", "p", "l",
    "e", ".", "c", "o", "m", "/", "v", "e", "r", "i", "f", "y", "/", "l",
    "o", "g", "i", "n">>

\* https://ecocash.com/
URL_base_is_target ==
    <<"h", "t", "t", "p", "s", ":", "/", "/", "e", "c", "o", "c", "a", "s",
    "h", ".", "c", "o", "m", "/">>

\* "https://" + d + "/" for every legitimate domain d
LegitimateURLs ==
    { <<"h", "t", "t", "p", "s", ":", "/", "/">> \o d \o <<"/">> :
          d \in LEGITIMATE_ZW_DOMAINS }

\* the URLs scanned
URLS ==
    LegitimateURLs \cup
    { URL_legit, URL_typosquat_login, URL_ip_verify, URL_shortener,
      URL_econet, URL_four_labels, URL_five_labels, URL_scam_tld,
      URL_bad_bracket, URL_ftp, URL_upper, URL_no_scheme,
      URL_substring_squat, URL_plain, URL_200_chars, URL_201_chars,
      URL_ip_name, URL_distance_two, URL_distance_three, URL_many_flags,
      URL_two_keywords, URL_base_is_target }

\* one step of scan_url: the findings after it, the levels passed to
\* _escalate_risk so far, and where the scan goes on
ScanStep(f, p, next) ==
    /\ findings' = f
    /\ proposed' = p
    /\ scan_pc' = next
    /\ UNCHANGED <<url, parsed, domain, path, full_url_lower, report>>
    /\ UNCHANGED <<configVars, runtime_provider_override, admin_resp, callVars,
                   levVars, healthVars, issued>>

\* findings["issues"].append(issue); _escalate_risk(findings, level)
Flag(issue, level, next) ==
    ScanStep(_escalate_risk(AppendIssue(findings, issue), level),
             Append(proposed, level), next)

\* the condition of a check is false: nothing is appended
Pass(next) == ScanStep(findings, proposed, next)

\* lines 53-64: the findings are created and the URL is decomposed
scan_url(u) ==
    /\ scan_pc = "idle"
    /\ url' = u
    /\ findings' = [url |-> u, risk_level |-> "low", issues |-> <<>>,
                    details |-> EmptyDict]
    /\ proposed' = <<>>
    /\ IF urlparse_raises(u)
       THEN /\ scan_pc' = "except"
            /\ UNCHANGED <<parsed, domain, path, full_url_lower>>
       ELSE /\ parsed' = urlparse(u)
            /\ domain' = Lower(parsed'.netloc)
            /\ path' = Lower(parsed'.path)
            /\ full_url_lower' = Lower(u)
            /\ scan_pc' = "check1"
    /\ UNCHANGED report
    /\ UNCHANGED <<configVars, runtime_provider_override, admin_resp, callVars,
                   levVars, healthVars, issued>>

\* line 67
MissingHTTPS(p) == p.scheme = h_t_t_p

\* lines 66-69
Check1 ==
    /\ scan_pc = "check1"
    /\ IF MissingHTTPS(parsed)
       THEN Flag(<<"No HTTPS encryption - data sent insecurely">>, "medium",
                 "check2")
       ELSE Pass("check2")

\* lines 71-76: the first suffix of the set, in the set's iteration order,
\* that the domain ends with
Check2 ==
    /\ scan_pc = "check2"
    /\ LET matching == {tld \in SUSPICIOUS_TLDS : EndsWith(domain, tld)} IN
       IF matching = {} THEN Pass("check3")
       ELSE \E tld \in matching :
               Flag(<<"Suspicious domain extension (", tld,
                      ") commonly used in scams">>,
                    "high", "check3")

\* lines 78-84
Check3 ==
    /\ scan_pc = "check3"
    /\ LET typosquat == _check_typosquatting(domain) IN
       IF typosquat # <<>>
       THEN Flag(<<"Possible impersonation of '", typosquat,
                   "' - domain looks similar but isn't the real site">>,
                 "critical", "check4")
       ELSE Pass("check4")

\* lines 86-93
Check4 ==
    /\ scan_pc = "check4"
    /\ IF \E k \in 1..Len(SCAM_PATTERNS) :
              re_search(SCAM_PATTERNS[k], full_url_lower)
       THEN Flag(<<"URL matches known Zimbabwean scam/fraud patterns">>,
                 "high", "check5")
       ELSE Pass("check5")

\* lines 95-98
Check5 ==
    /\ scan_pc = "check5"
    /\ IF Len(url) > 200
       THEN Flag(<<"Unusually long URL - may be disguising destination">>,
                 "medium", "check6")
       ELSE Pass("check6")

\* lines 100-108: the first keyword of the list that the path contains
Check6 ==
    /\ scan_pc = "check6"
    /\ LET hits == {k \in 1..Len(sus_paths) :
                       /\ Contains(path, sus_paths[k])
                       /\ domain \notin LEGITIMATE_ZW_DOMAINS}
       IN  IF hits # {}
           THEN LET k == CHOOSE i \in hits : \A j \in hits : i <= j IN
                Flag(<<"Contains '", sus_paths[k],
                       "' in path on non-official domain - possible phishing">>,
                     "high", "check7")
           ELSE Pass("check7")

\* lines 110-113
Check7 ==
    /\ scan_pc = "check7"
    /\ IF re_match_ipv4(domain)
       THEN Flag(<<"Uses IP address instead of domain name - highly suspicious">>,
                 "critical", "check8")
       ELSE Pass("check8")

\* a check 8 that counts three dots as excessive
ExcessiveSubdomains_three_dots(dom) == Count(dom, ".") >= 3

\* line 116
ExcessiveSubdomains(dom) == Count(dom, ".") > 3

\* lines 115-118
Check8 ==
    /\ scan_pc = "check8"
    /\ IF ExcessiveSubdomains(domain)
       THEN Flag(<<"Excessive subdomains - may be impersonating a legitimate site">>,
                 "medium", "check9")
       ELSE Pass("check9")

\* line 122
IsShortener(dom) == \E k \in 1..Len(shorteners) : Contains(dom, shorteners[k])

\* lines 120-124
Check9 ==
    /\ scan_pc = "check9"
    /\ IF IsShortener(domain)
       THEN Flag(<<"Uses URL shortener - destination is hidden">>, "medium",
                 "summary")
       ELSE Pass("summary")

\* a summary that looks the netloc up as it was written in the URL
Summary_raw_netloc ==
    /\ scan_pc = "summary"
    /\ LET f == IF findings.issues = <<>>
                THEN AppendIssue(findings,
                         <<"No obvious red flags detected - but always verify independently">>)
                ELSE findings
       IN  ScanStep([f EXCEPT !.details =
                        [domain |-> domain,
                         scheme |-> parsed.scheme,
                         is_known_zw_domain |->
                             parsed.netloc \in LEGITIMATE_ZW_DOMAINS]],
                    proposed, "done")

\* lines 126-134
Summary ==
    /\ scan_pc = "summary"
    /\ LET f == IF findings.issues = <<>>
                THEN AppendIssue(findings,
                         <<"No obvious red flags detected - but always verify independently">>)
                ELSE findings
       IN  ScanStep([f EXCEPT !.details =
                        [domain |-> domain,
                         scheme |-> parsed.scheme,
                         is_known_zw_domain |->
                             domain \in LEGITIMATE_ZW_DOMAINS]],
                    proposed, "done")

\* a scan_url without the handler: the exception leaves the function
Except_propagates ==
    /\ scan_pc = "except"
    /\ scan_pc' = "raised"
    /\ UNCHANGED <<url, findings, proposed, parsed, domain, path,
                   full_url_lower, report>>
    /\ UNCHANGED <<configVars, runtime_provider_override, admin_resp, callVars,
                   levVars, healthVars, issued>>

\* lines 136-138: the handler of an exception raised in the try block;
\* str(e) of the ValueError urlparse raises is "Invalid IPv6 URL"
Except ==
    /\ scan_pc = "except"
    /\ Flag(<<"Could not fully analyse URL: ", "Invalid IPv6 URL">>, "medium",
            "done")

\* line 197-202, 205: risk_emoji.get(scan['risk_level'], default); the
\* emoji are named, not drawn
risk_emoji(level) ==
    CASE level = "low"      -> "<emoji low>"
      [] level = "medium"   -> "<emoji medium>"
      [] level = "high"     -> "<emoji high>"
      [] level = "critical" -> "<emoji critical>"
      [] OTHER              -> "<emoji default>"

\* line 205: str.upper() on the level names
upper(level) ==
    CASE level = "low"      -> "LOW"
      [] level = "medium"   -> "MEDIUM"
      [] level = "high"     -> "HIGH"
      [] level = "critical" -> "CRITICAL"
      [] OTHER              -> level

\* a lookup that is truthy for every finding that has details
is_known_zw_domain_any_details(scan) == DOMAIN scan.details # {}

\* line 210: scan.get("details", {}).get("is_known_zw_domain"), as a truth
\* value; the key "details" is in every finding scan_url builds
is_known_zw_domain(scan) ==
    /\ "is_known_zw_domain" \in DOMAIN scan.details
    /\ scan.details.is_known_zw_domain

\* line 211
KnownDomainLine ==
    <<"  ", "<emoji check>", " Domain is a known legitimate Zimbabwean website">>

\* lines 195-213: the text returned, as the sequence of its lines; a line is
\* the pieces the f-string joins
format_scan_results(scan) ==
    << <<"AUTOMATED SECURITY SCAN RESULTS:">>,
       <<"Risk Level: ", risk_emoji(scan.risk_level), " ",
         upper(scan.risk_level)>>,
       <<"Issues found:">> >>
    \o [i \in 1..Len(scan.issues) |-> <<"  - ", scan.issues[i]>>]
    \o (IF is_known_zw_domain(scan) THEN <<KnownDomainLine>> ELSE <<>>)

\* app.py:351-352: _handle_link formats the findings scan_url returned
ScanReport ==
    /\ scan_pc = "done"
    /\ report' = format_scan_results(findings)
    /\ scan_pc' = "formatted"
    /\ UNCHANGED <<url, findings, proposed, parsed, domain, path,
                   full_url_lower>>
    /\ UNCHANGED <<configVars, runtime_provider_override, admin_resp, callVars,
                   levVars, healthVars, issued>>

\* line 140 / app.py:354-359: the caller is done with the findings; the next
\* scan may start
ScanReturn ==
    /\ scan_pc \in {"done", "formatted"}
    /\ scan_pc' = "idle"
    /\ url' = <<>>
    /\ findings' = NoFindings
    /\ proposed' = <<>>
    /\ report' = <<>>
    /\ parsed' = NoParse
    /\ domain' = <<>>
    /\ path' = <<>>
    /\ full_url_lower' = <<>>
    /\ UNCHANGED <<configVars, runtime_provider_override, admin_resp, callVars,
                   levVars, healthVars, issued>>

----------------------------------------------------------------------------
(* the process: a configuration read once, then requests and admin commands *)

\* the configuration, the analyzer and the scanner when the process starts
ProcessInit ==
    /\ ANTHROPIC_API_KEY \in Keys
    /\ OPENAI_API_KEY \in Keys
    /\ AI_PROVIDER \in Modes
    /\ runtime_provider_override = None
    /\ admin_resp = None
    /\ pc = "idle"
    /\ call = None
    /\ content_type = None
    /\ user_message = None
    /\ system = None
    /\ primary = None
    /\ fallback = None
    /\ result = None
    /\ ret = None
    /\ invocations = <<>>
    /\ override_at_entry = None
    /\ scan_pc = "idle"
    /\ url = <<>>
    /\ findings = NoFindings
    /\ parsed = NoParse
    /\ domain = <<>>
    /\ path = <<>>
    /\ full_url_lower = <<>>
    /\ proposed = <<>>
    /\ report = <<>>

Init ==
    /\ ProcessInit
    /\ lev_pc = "idle"
    /\ lev_s1 = <<>>
    /\ lev_s2 = <<>>
    /\ lev_ret = 0
    /\ health_pc = "idle"
    /\ health_seen = None
    /\ health_ret = None
    /\ issued = <<>>

Next ==
    \/ \E ct \in ContentTypes : analyze_text(ct)
    \/ analyze_image_with_vision
    \/ CallPrimary
    \/ CallFallback
    \/ Finish
    \/ \E command \in Commands :
          _handle_admin_command(command) /\ UNCHANGED issued

Spec == Init /\ [][Next]_vars

\* the most admin commands one behaviour handles
MaxCommands == 3

\* app.py:236-242: _process_message hands an admin's text to
\* _handle_admin_command
AdminMessage(command) ==
    /\ Len(issued) < MaxCommands
    /\ _handle_admin_command(command)
    /\ issued' = Append(issued, command)

\* the admin commands and the requests that only read the current provider,
\* each request on its own thread
AdminNext ==
    \/ \E command \in Commands : AdminMessage(command)
    \/ health
    \/ CurrentProviderTest
    \/ CurrentProviderReturn
    \/ HealthReturn

AdminSpec == Init /\ [][AdminNext]_vars

\* the scanner alone, in a process started with the environment's defaults
\* (config.py:9, 10, 18)
ScanInit ==
    /\ Init
    /\ ANTHROPIC_API_KEY = ""
    /\ OPENAI_API_KEY = ""
    /\ AI_PROVIDER = "auto"

ScanNext ==
    \/ \E u \in URLS : scan_url(u)
    \/ Check1
    \/ Check2
    \/ Check3
    \/ Check4
    \/ Check5
    \/ Check6
    \/ Check7
    \/ Check8
    \/ Check9
    \/ Summary
    \/ Except
    \/ ScanReport
    \/ ScanReturn

ScanSpec == ScanInit /\ [][ScanNext]_vars

\* the longest string passed to _levenshtein_distance
MaxLabelLen == 3

\* the characters of the strings passed to _levenshtein_distance
LabelChars == {"a", "b", "c"}

\* the strings of at most MaxLabelLen characters, the empty one included
Labels_upto == UNION {[1..n -> LabelChars] : n \in 0..MaxLabelLen}

\* lines 175-192: the call returns the distance of its two arguments
CallLevenshtein ==
    /\ lev_pc = "called"
    /\ lev_ret' = _levenshtein_distance(lev_s1, lev_s2)
    /\ lev_pc' = "returned"
    /\ UNCHANGED <<lev_s1, lev_s2>>
    /\ UNCHANGED <<configVars, runtime_provider_override, admin_resp, callVars,
                   scanVars, healthVars, issued>>

\* _levenshtein_distance alone, called on every pair of strings
LevInit ==
    /\ ProcessInit
    /\ ANTHROPIC_API_KEY = ""
    /\ OPENAI_API_KEY = ""
    /\ AI_PROVIDER = "auto"
    /\ lev_pc = "called"
    /\ lev_s1 \in Labels_upto
    /\ lev_s2 \in Labels_upto
    /\ lev_ret = 0
    /\ health_pc = "idle"
    /\ health_seen = None
    /\ health_ret = None
    /\ issued = <<>>

LevNext == CallLevenshtein

LevSpec == LevInit /\ [][LevNext]_vars

----------------------------------------------------------------------------
(* Properties of the provider registry and the analyzer *)

NoCredentials == ANTHROPIC_API_KEY = "" /\ OPENAI_API_KEY = ""

\* an oracle call failed: it raised, or it answered None
Failed(outcome) == outcome \in {Raise, None}

Called(n) == Len(invocations) >= n

\* C1, as stated: analyze_text and analyze_image_with_vision never raise, in
\* every configuration, the one without credentials included
C1_NeverRaises == pc # "raised"

\* C1, amended: with at least one credential configured no exception escapes
\* analyze_text or analyze_image_with_vision and the value returned is a
\* string, whatever the oracle calls do; with no credential the call ends
\* with the RuntimeError of get_active_provider and makes no oracle call
C1_NoRaiseWithCredential ==
    /\ ~NoCredentials =>
          /\ pc # "raised"
          /\ pc = "returned" => ret \in Texts \cup {_error_response}
    /\ NoCredentials => pc \in {"idle", "raised"} /\ invocations = <<>>

\* C1 witness: one credential only, the single oracle call raised, and the
\* call still returned
C1_Witness ==
    /\ pc = "returned"
    /\ ANTHROPIC_API_KEY = "" /\ OPENAI_API_KEY # ""
    /\ Len(invocations) = 1
    /\ invocations[1].outcome = Raise

\* C2: whatever the oracle calls do, the string analyze returns is non-empty
C2_NonEmpty == pc = "returned" => ret # ""

\* C3: at most two oracle invocations per call; the first goes to the
\* primary; a second one is made only after the first failed, only when
\* there is a fallback, only to the fallback, never to the provider already
\* tried; a successful first call is returned at once
C3_AtMostTwoInvocations ==
    /\ Len(invocations) <= 2
    /\ Called(1) => invocations[1].provider = get_active_provider
    /\ Called(2) =>
          /\ Failed(invocations[1].outcome)
          /\ get_fallback_provider # None
          /\ invocations[2].provider = get_fallback_provider
          /\ invocations[2].provider # invocations[1].provider
    /\ (Called(1) /\ ~Failed(invocations[1].outcome)) =>
          /\ pc = "returned"
          /\ Len(invocations) = 1
          /\ ret = invocations[1].outcome

\* C3 witness: the primary failed and the fallback was called
C3_Witness ==
    /\ pc = "returned"
    /\ Len(invocations) = 2
    /\ ret = "verdict"

\* C4: while the override is set, the first oracle invocation of a call goes
\* to the override provider
C4_OverrideRoutes ==
    (Called(1) /\ Truthy(override_at_entry)) =>
        invocations[1].provider = override_at_entry

\* C5: get_active_provider raises exactly in the configurations without any
\* credential, in every mode, and a call ends with that error exactly then
C5_ConfigErrorIffNoCredentials ==
    /\ (get_active_provider = RuntimeError) <=> NoCredentials
    /\ pc = "raised" => primary = RuntimeError /\ NoCredentials
    /\ pc \in {"call_primary", "call_fallback", "returned"} =>
          primary \in Providers /\ ~NoCredentials

\* C5 witness: a pinned provider, no credential, and the call raised
C5_Witness ==
    /\ pc = "raised"
    /\ AI_PROVIDER = "openai"
    /\ NoCredentials

\* C6: outside auto mode get_fallback_provider is None for every set of
\* credentials, so a call makes no second invocation
C6_NoFallbackWhenPinned ==
    AI_PROVIDER # "auto" =>
        /\ get_fallback_provider = None
        /\ pc # "idle" => fallback = None
        /\ pc # "call_fallback"
        /\ Len(invocations) <= 1

\* C6 witness: a pinned provider with both credentials failed, and the call
\* returned the apology after one invocation
C6_Witness ==
    /\ AI_PROVIDER = "openai"
    /\ ANTHROPIC_API_KEY # "" /\ OPENAI_API_KEY # ""
    /\ pc = "returned"
    /\ ret = _error_response
    /\ Len(invocations) = 1

\* C7: in auto mode get_fallback_provider is the other provider when both
\* credentials are configured and None in every other case
C7_AutoFallback ==
    AI_PROVIDER = "auto" =>
        get_fallback_provider =
            IF ANTHROPIC_API_KEY # "" /\ OPENAI_API_KEY # "" THEN "openai"
            ELSE None

KeyOf(provider) ==
    IF provider = "anthropic" THEN ANTHROPIC_API_KEY ELSE OPENAI_API_KEY

OtherProvider(provider) ==
    IF provider = "anthropic" THEN "openai" ELSE "anthropic"

\* C8: with at least one credential, auto mode resolves to anthropic when
\* its key is present and to openai otherwise; a pinned mode resolves to the
\* named provider when its key is present and to the other one otherwise;
\* the result always has a key
C8_ActiveProviderResolution ==
    ~NoCredentials =>
        /\ InSeq(get_active_provider, get_available_providers)
        /\ KeyOf(get_active_provider) # ""
        /\ AI_PROVIDER = "auto" =>
              get_active_provider =
                  IF ANTHROPIC_API_KEY # "" THEN "anthropic" ELSE "openai"
        /\ AI_PROVIDER \in Providers =>
              get_active_provider =
                  IF KeyOf(AI_PROVIDER) # "" THEN AI_PROVIDER
                  ELSE OtherProvider(AI_PROVIDER)
        /\ pc \in {"call_primary", "call_fallback", "returned"} =>
              primary = get_active_provider

\* C8 witness: anthropic is pinned without a key, openai has one, and the
\* call resolved to openai
C8_Witness ==
    /\ AI_PROVIDER = "anthropic"
    /\ ANTHROPIC_API_KEY = "" /\ OPENAI_API_KEY # ""
    /\ pc = "call_primary"
    /\ primary = "openai"

\* the primary failed and no fallback exists, or the fallback failed too
TotalFailure ==
    /\ Called(1)
    /\ Failed(invocations[1].outcome)
    /\ \/ fallback = None
       \/ Called(2) /\ Failed(invocations[2].outcome)

\* C9: a call returns the fixed apology exactly on total failure, for every
\* provider, content type and failure cause
C9_ApologyIffTotalFailure ==
    pc = "returned" => (ret = _error_response <=> TotalFailure)

\* C9 witness: both providers failed, one by raising and one by answering
\* None, and the apology was returned
C9_Witness ==
    /\ pc = "returned"
    /\ Len(invocations) = 2
    /\ invocations[1].outcome = Raise
    /\ invocations[2].outcome = None
    /\ ret = _error_response

----------------------------------------------------------------------------
(* Properties of the URL risk scanner *)

\* C10: within one scan the risk level starts at low and no step of the
\* scan (a check, the summary, the parse-failure handler) lowers it
C10_RiskNeverDecreases ==
    [][ /\ (scan_pc = "idle" /\ scan_pc' # "idle") =>
               findings'.risk_level = "low"
        /\ (scan_pc # "idle" /\ scan_pc' # "idle") =>
               levels(findings'.risk_level) >= levels(findings.risk_level)
      ]_vars

\* C10 witness: a scan that went to medium (check 1), then to critical
\* (check 3), then met a check proposing high (check 6), and ended critical
C10_Witness ==
    /\ scan_pc = "done"
    /\ url = URL_typosquat_login
    /\ Len(findings.issues) = 3
    /\ findings.risk_level = "critical"

\* the highest ordinal among the levels ps, 0 (low) when there is none
MaxLevel(ps) ==
    LET ranks == {levels(ps[i]) : i \in 1..Len(ps)} \cup {0} IN
    CHOOSE r \in ranks : \A q \in ranks : q <= r

\* the orders in which n proposals can be applied
Orders(n) == {p \in [1..n -> 1..n] : \A i, j \in 1..n : p[i] = p[j] => i = j}

\* the findings after the levels ps went through _escalate_risk one by one
RECURSIVE ApplyAll(_, _)
ApplyAll(f, ps) ==
    IF ps = <<>> THEN f
    ELSE ApplyAll(_escalate_risk(f, Head(ps)), Tail(ps))

\* C11: the risk level of a scan is the ordinal maximum of low and the
\* levels its checks proposed, and applying the same proposals to fresh
\* findings through _escalate_risk in any other order gives the same level
C11_MaxOfProposed ==
    /\ findings.risk_level \in {"low", "medium", "high", "critical"}
    /\ levels(findings.risk_level) = MaxLevel(proposed)
    /\ \A p \in Orders(Len(proposed)) :
          ApplyAll([findings EXCEPT !.risk_level = "low"],
                   [i \in 1..Len(proposed) |-> proposed[p[i]]]).risk_level
              = findings.risk_level

\* a finished scan whose five proposals came in a non-monotone order
C11_Witness ==
    /\ scan_pc = "done"
    /\ url = URL_many_flags
    /\ proposed = <<"medium", "high", "critical", "high", "medium">>
    /\ findings.risk_level = "critical"

\* the scan has returned its findings
Returned == scan_pc \in {"done", "formatted"}

\* the issue the exception handler appends (line 137)
IsCouldNotAnalyse(issue) ==
    /\ Len(issue) = 2
    /\ issue[1] = "Could not fully analyse URL: "

\* C12: a URL whose decomposition fails enters the handler with no issue yet;
\* the handler's only step returns the findings of that URL with exactly one
\* 'could not fully analyse' issue and risk level medium; no exception
\* leaves scan_url
C12_ParseFailureCaught ==
    [][ /\ (scan_pc = "idle" /\ scan_pc' # "idle" /\ urlparse_raises(url')) =>
               /\ scan_pc' = "except"
               /\ findings'.issues = <<>>
        /\ scan_pc = "except" =>
               /\ scan_pc' = "done"
               /\ Len(findings'.issues) = 1
               /\ IsCouldNotAnalyse(findings'.issues[1])
               /\ findings'.risk_level = "medium"
               /\ findings'.url = url
        /\ scan_pc' # "raised"
      ]_vars

\* the scan of a URL with an unbalanced bracket has returned
C12_Witness ==
    /\ scan_pc = "done"
    /\ url = URL_bad_bracket
    /\ urlparse_raises(url)
    /\ Len(findings.issues) = 1
    /\ IsCouldNotAnalyse(findings.issues[1])
    /\ findings.risk_level = "medium"

\* the informational issue of line 128
IsNoRedFlags(issue) ==
    /\ Len(issue) = 1
    /\ issue[1] = "No obvious red flags detected - but always verify independently"

\* C13: returned findings have risk level low exactly when their issues are
\* the single 'no red flags' entry; that entry comes with no escalation and
\* with no other issue, and no returned findings have an empty issues list
C13_LowIffNoRedFlags ==
    Returned =>
        /\ findings.issues # <<>>
        /\ findings.risk_level = "low" <=>
               (Len(findings.issues) = 1 /\ IsNoRedFlags(findings.issues[1]))
        /\ \A k \in 1..Len(findings.issues) :
               IsNoRedFlags(findings.issues[k]) =>
                   /\ Len(findings.issues) = 1
                   /\ proposed = <<>>
                   /\ findings.risk_level = "low"

\* a scan in which no check fired has returned
C13_Witness ==
    /\ scan_pc = "done"
    /\ url = URL_plain
    /\ findings.risk_level = "low"
    /\ Len(findings.issues) = 1
    /\ IsNoRedFlags(findings.issues[1])

\* the URL was decomposed and the scan is somewhere after line 64
Position(p) ==
    CASE p = "check1"    -> 1
      [] p = "check2"    -> 2
      [] p = "check3"    -> 3
      [] p = "check4"    -> 4
      [] p = "check5"    -> 5
      [] p = "check6"    -> 6
      [] p = "check7"    -> 7
      [] p = "check8"    -> 8
      [] p = "check9"    -> 9
      [] p = "summary"   -> 10
      [] p = "done"      -> 11
      [] p = "formatted" -> 12
      [] OTHER           -> 0

\* check n of a scan whose URL was decomposed has run
Passed(n) == ~urlparse_raises(url) /\ Position(scan_pc) > n

\* the check that writes the issue, by the fixed text the issue begins with
CheckOf(issue) ==
    CASE issue[1] = "No HTTPS encryption - data sent insecurely"          -> 1
      [] issue[1] = "Suspicious domain extension ("                       -> 2
      [] issue[1] = "Possible impersonation of '"                         -> 3
      [] issue[1] = "URL matches known Zimbabwean scam/fraud patterns"    -> 4
      [] issue[1] = "Unusually long URL - may be disguising destination"  -> 5
      [] issue[1] = "Contains '"                                          -> 6
      [] issue[1] = "Uses IP address instead of domain name - highly suspicious" -> 7
      [] issue[1] = "Excessive subdomains - may be impersonating a legitimate site" -> 8
      [] issue[1] = "Uses URL shortener - destination is hidden"          -> 9
      [] OTHER                                                            -> 0

\* the findings hold the issue of check n
Fired(n) == \E k \in 1..Len(findings.issues) : CheckOf(findings.issues[k]) = n

\* the text before the first dot
PrimaryLabel(d) ==
    LET dots == {i \in 1..Len(d) : d[i] = "."} IN
    IF dots = {} THEN d
    ELSE SubSeq(d, 1, (CHOOSE i \in dots : \A j \in dots : i <= j) - 1)

\* a can be turned into b by at most k single-character insertions,
\* deletions and substitutions
RECURSIVE WithinEdits(_, _, _)
WithinEdits(a, b, k) ==
    IF a = <<>> THEN Len(b) <= k
    ELSE IF b = <<>> THEN Len(a) <= k
    ELSE IF Head(a) = Head(b) THEN WithinEdits(Tail(a), Tail(b), k)
    ELSE /\ k > 0
         /\ \/ WithinEdits(Tail(a), b, k - 1)
            \/ WithinEdits(a, Tail(b), k - 1)
            \/ WithinEdits(Tail(a), Tail(b), k - 1)

\* the typosquat rule as stated: the domain is not a legitimate one and some
\* target's base name differs from the primary label and is a substring of
\* it or within two edits of it
TyposquatRule(d) ==
    /\ d \notin LEGITIMATE_ZW_DOMAINS
    /\ \E k \in 1..Len(typosquat_targets) :
          LET target_base == typosquat_targets[k][1]
              label == PrimaryLabel(d)
          IN  /\ target_base # label
              /\ \/ \E i \in 1..Len(label) : OccursAt(label, target_base, i)
                 \/ WithinEdits(label, target_base, 2)

\* C14: _check_typosquatting names a target for the domain of a scan exactly
\* when the typosquat rule holds of the domain; check 3 then appends the
\* impersonation issue and the level is critical from there on; a legitimate
\* domain is never flagged
C14_TyposquatRule ==
    /\ Passed(0) =>
          /\ (_check_typosquatting(domain) # <<>>) <=> TyposquatRule(domain)
          /\ domain \in LEGITIMATE_ZW_DOMAINS =>
                 _check_typosquatting(domain) = <<>>
    /\ Passed(3) =>
          /\ Fired(3) <=> TyposquatRule(domain)
          /\ Fired(3) => findings.risk_level = "critical"

\* a domain two edits away from a target's base name was flagged
C14_Witness ==
    /\ scan_pc = "done"
    /\ url = URL_distance_two
    /\ Fired(3)
    /\ ~WithinEdits(PrimaryLabel(domain), typosquat_targets[1][1], 1)
    /\ findings.risk_level = "critical"

\* the dot-separated labels of a domain, in order
RECURSIVE Labels(_)
Labels(d) ==
    LET dots == {i \in 1..Len(d) : d[i] = "."} IN
    IF dots = {} THEN <<d>>
    ELSE LET i == CHOOSE x \in dots : \A y \in dots : x <= y IN
         <<SubSeq(d, 1, i - 1)>> \o Labels(SubSeq(d, i + 1, Len(d)))

\* check n proposed the level: its issue is there and the level was passed
\* to _escalate_risk
Proposes(n, level) ==
    /\ Fired(n)
    /\ \E k \in 1..Len(proposed) : proposed[k] = level
    /\ levels(findings.risk_level) >= levels(level)

\* C15 as stated: check 8 fires exactly for the domains with four labels or
\* more
C15_MoreThanThreeLabels ==
    Passed(8) =>
        /\ Fired(8) <=> Len(Labels(domain)) > 3
        /\ Fired(8) => Proposes(8, "medium")

\* C15, amended: check 8 appends its issue and proposes medium exactly for
\* the decomposed URLs whose domain has five dot-separated labels or more
\* (more than three dots), and for none whose domain has four or fewer
C15_MoreThanFourLabels ==
    Passed(8) =>
        /\ Fired(8) <=> Len(Labels(domain)) > 4
        /\ Fired(8) => Proposes(8, "medium")

\* a five-label domain was flagged by check 8 alone
C15_Witness ==
    /\ scan_pc = "done"
    /\ url = URL_five_labels
    /\ Len(Labels(domain)) = 5
    /\ Fired(8)
    /\ findings.risk_level = "medium"

h_t_t_p_s == <<"h", "t", "t", "p", "s">>

\* C16: check 1 appends its issue and proposes medium exactly for the
\* decomposed URLs whose scheme is not https
C16_NotHttpsFlagged ==
    Passed(1) =>
        /\ Fired(1) <=> parsed.scheme # h_t_t_p_s
        /\ Fired(1) => Proposes(1, "medium")

\* the domain is one of the shortener services
IsShortenerService(d) == \E k \in 1..Len(shorteners) : d = shorteners[k]

\* C17: check 9 appends its issue and proposes medium exactly when the domain
\* is one of the shortener services
C17_ShortenerExactly ==
    Passed(9) =>
        /\ Fired(9) <=> IsShortenerService(domain)
        /\ Fired(9) => Proposes(9, "medium")

\* four dot-separated groups of one to three digits
IsDottedQuad(d) ==
    LET groups == Labels(d) IN
    /\ Len(groups) = 4
    /\ \A k \in 1..4 :
          /\ Len(groups[k]) \in 1..3
          /\ \A i \in 1..Len(groups[k]) : groups[k][i] \in Digits

\* C18: check 7 appends its issue and makes the level critical exactly when
\* the domain is a dotted-quad IPv4 literal
C18_IPLiteralExactly ==
    Passed(7) =>
        /\ Fired(7) <=> IsDottedQuad(domain)
        /\ Fired(7) => findings.risk_level = "critical"

\* the checks that wrote the issues, in list order
IssueChecks == [k \in 1..Len(findings.issues) |-> CheckOf(findings.issues[k])]

\* C19: the issues of the findings are in the order of the checks 1..9: of
\* two issues the earlier one comes from the earlier check, so no check has
\* two issues, and an issue is there only once its check has run; the http
\* typosquat URL with a /login path lists insecure transport, impersonation
\* and suspicious path, with risk critical
C19_DiscoveryOrder ==
    /\ \A i, j \in 1..Len(findings.issues) :
          i < j => 1 <= IssueChecks[i] /\ IssueChecks[i] < IssueChecks[j]
    /\ Passed(0) => \A k \in 1..Len(findings.issues) :
                        IssueChecks[k] < Position(scan_pc)
    /\ (Returned /\ url = URL_typosquat_login) =>
          /\ IssueChecks = <<1, 3, 6>>
          /\ findings.risk_level = "critical"

\* the example scan has returned its three issues
C19_Witness ==
    /\ Returned
    /\ url = URL_typosquat_login
    /\ IssueChecks = <<1, 3, 6>>

\* the level name in capitals
InCapitals(level) ==
    CASE level = "low"      -> "LOW"
      [] level = "medium"   -> "MEDIUM"
      [] level = "high"     -> "HIGH"
      [] level = "critical" -> "CRITICAL"

\* the line holds the level of the findings in capitals
CarriesLevel(line) ==
    \E k \in 1..Len(line) : line[k] = InCapitals(findings.risk_level)

\* the line is the bullet of the issue
IsBulletOf(line, issue) ==
    /\ Len(line) = 2
    /\ line[1] = "  - "
    /\ line[2] = issue

\* C20: the report of returned findings has, before its bullets, exactly one
\* line that carries the risk level in capitals; then one bullet per issue,
\* in the order of the issues and none besides; then the known-domain line
\* exactly when the scan recorded the domain as a known one; findings whose
\* details are empty (a URL that could not be decomposed) are rendered too
C20_ReportLayout ==
    scan_pc = "formatted" =>
        LET n == Len(findings.issues)
            known == ~urlparse_raises(url) /\ domain \in LEGITIMATE_ZW_DOMAINS
        IN  /\ Len(report) = 3 + n + (IF known THEN 1 ELSE 0)
            /\ CarriesLevel(report[2])
            /\ Len(report[1]) = 1 /\ Len(report[3]) = 1
            /\ ~CarriesLevel(report[1]) /\ ~CarriesLevel(report[3])
            /\ \A k \in 1..n : IsBulletOf(report[3 + k], findings.issues[k])
            /\ known => report[3 + n + 1] = KnownDomainLine
            /\ urlparse_raises(url) =>
                   /\ DOMAIN findings.details = {}
                   /\ Len(report) = 4

\* the report of a known domain: three leading lines, the bullet of its one
\* issue, the known-domain line
C20_Witness ==
    /\ scan_pc = "formatted"
    /\ url = URL_legit
    /\ Len(report) = 5
    /\ IsBulletOf(report[4], findings.issues[1])
    /\ report[5] = KnownDomainLine

----------------------------------------------------------------------------
(* Properties of the edit distance *)

\* C21: the distance a call of _levenshtein_distance returns for (s1, s2) is
\* the distance the function gives for (s2, s1)
C21_Symmetric ==
    lev_pc = "returned" =>
        lev_ret = _levenshtein_distance(lev_s2, lev_s1)

\* a call on two strings of the same, greatest length that differ in every
\* position has returned
C21_Witness ==
    /\ lev_pc = "returned"
    /\ Len(lev_s1) = Len(lev_s2)
    /\ Len(lev_s1) = MaxLabelLen
    /\ lev_s1 # lev_s2
    /\ lev_ret = MaxLabelLen

----------------------------------------------------------------------------
(* Properties of the runtime override and the current provider *)

\* C22: a resolution of the current provider that runs while admin commands
\* set and clear the override returns what the one value it read of the cell
\* stands for: that value when it names a provider, the configuration's
\* active provider otherwise; with a credential this is a provider name
C22_ConsistentRead ==
    (health_pc = "returned" /\ ~NoCredentials) =>
        /\ health_ret \in Providers
        /\ health_ret = IF Truthy(health_seen) THEN health_seen
                        ELSE get_active_provider

\* the most recent of !claude, !gpt and !auto among the commands, None when
\* there is none
RECURSIVE LastSwitch(_)
LastSwitch(commands) ==
    IF commands = <<>> THEN None
    ELSE LET cmd == StripLower(commands[Len(commands)]) IN
         IF cmd \in {"!claude", "!gpt", "!auto"} THEN cmd
         ELSE LastSwitch(SubSeq(commands, 1, Len(commands) - 1))

\* the value the override has after the commands
SlotAfter(commands) ==
    CASE LastSwitch(commands) = "!claude" -> "anthropic"
      [] LastSwitch(commands) = "!gpt"    -> "openai"
      [] OTHER                            -> None

\* C23: after every sequence of admin commands the override is what the most
\* recent of !claude, !gpt and !auto wrote (None after !auto or without any);
\* !status and other texts leave it as it is; no step changes the static
\* configuration or the result of get_fallback_provider()
C23_LastWriteWins ==
    [][ /\ runtime_provider_override = SlotAfter(issued)
        /\ runtime_provider_override' = SlotAfter(issued')
        /\ configVars' = configVars
        /\ get_fallback_provider' = get_fallback_provider
      ]_vars

\* a switch was overwritten by a later one, then !status was answered
C23_Witness ==
    /\ issued = <<"!gpt", "!claude", "!status">>
    /\ runtime_provider_override = "anthropic"
    /\ admin_resp = "Chokwadi AI Status"

----------------------------------------------------------------------------
(* Properties of the findings *)

\* C24: the scan of "https://" + d + "/" for a legitimate domain d returns
\* risk level low, the single 'no red flags' issue and a details record that
\* marks the domain as known
C24_LegitimateScansLow ==
    (Returned /\ url \in LegitimateURLs) =>
        /\ findings.risk_level = "low"
        /\ Len(findings.issues) = 1
        /\ IsNoRedFlags(findings.issues[1])
        /\ findings.details.is_known_zw_domain

\* C25 as stated: all returned findings, those of a URL that could not be
\* decomposed included, carry domain, scheme and the known-domain flag
C25_DetailsAlways ==
    Returned =>
        /\ findings.url = url
        /\ findings.risk_level \in {"low", "medium", "high", "critical"}
        /\ DOMAIN findings.details = {"domain", "scheme", "is_known_zw_domain"}
        /\ findings.details.is_known_zw_domain <=>
               findings.details.domain \in LEGITIMATE_ZW_DOMAINS

\* C25, amended: all returned findings carry the URL given and one of the
\* four risk levels; the findings of a URL that was decomposed carry its
\* domain, its scheme and a flag that is true exactly when the domain is a
\* registered one; the findings of a URL that could not be decomposed carry
\* empty details
C25_DetailsWhenParsed ==
    Returned =>
        /\ findings.url = url
        /\ findings.risk_level \in {"low", "medium", "high", "critical"}
        /\ IF urlparse_raises(url)
           THEN DOMAIN findings.details = {}
           ELSE /\ DOMAIN findings.details =
                       {"domain", "scheme", "is_known_zw_domain"}
                /\ findings.details.domain = domain
                /\ findings.details.scheme = parsed.scheme
                /\ findings.details.is_known_zw_domain <=>
                       findings.details.domain \in LEGITIMATE_ZW_DOMAINS

\* a URL written in capitals was scanned: its domain is recorded in lower
\* case and as a known one
C25_Witness ==
    /\ scan_pc = "done"
    /\ url = URL_upper
    /\ findings.url = URL_upper
    /\ findings.details.domain \in LEGITIMATE_ZW_DOMAINS
    /\ findings.details.is_known_zw_domain

\* what _current_provider gave when the running call began
CurrentAtEntry ==
    IF Truthy(override_at_entry) THEN override_at_entry
    ELSE get_active_provider

\* C26: with at least one credential, whatever admin commands were handled,
\* the provider _current_provider reports is one of get_available_providers()
\* and it is the provider a call invokes first
C26_CurrentIsInvokedFirst ==
    ~NoCredentials =>
        /\ InSeq(_current_provider, get_available_providers)
        /\ Called(1) => invocations[1].provider = CurrentAtEntry

====
